---- MODULE Spec2Model ----
(***************************************************************************)
(* Model of src/main.js: the WalletConnect / Hedera Consensus Service      *)
(* page script.  The three module globals, the stored initialization       *)
(* promise, the DOM elements the script writes, the wallet library's       *)
(* signer list and every running async handler invocation are state.       *)
(* One action per event-loop task: a handler runs from its entry (or from  *)
(* the settlement of the promise it awaits) up to its next pending await.  *)
(***************************************************************************)
EXTENDS Naturals, Integers, Sequences, FiniteSets, TLC

VARIABLES
    accountId,                \* main.js:15
    isConnected,              \* main.js:16
    topicId,                  \* main.js:17
    walletConnectInitPromise, \* main.js:49 ("unset" | "pending" | "fulfilled" | "rejected")
    initCalls,                \* number of dappConnector.init() calls made
    signers,                  \* dappConnector.signers, a sequence of account objects
    dom,                      \* element id -> text / html / value
    listeners,                \* ids of the buttons that have a click listener
    pagePc,                   \* position of the DOMContentLoaded handler
    inv,                      \* the handler invocations started by clicks, in order
    unhandled                 \* messages of rejections that escaped a handler

vars == <<accountId, isConnected, topicId, walletConnectInitPromise, initCalls,
          signers, dom, listeners, pagePc, inv, unhandled>>

-----------------------------------------------------------------------------
(* Bounds *)

MaxInv == 3          \* handler invocations (clicks) per page load

-----------------------------------------------------------------------------
(* JavaScript values *)

\* undefined / null is the empty sequence, a present value x is <<x>>
Undefined == <<>>

Some(x) == <<x>>

\* AccountId / TopicId objects of the SDK and their toString()
EntityId(n) == [shard |-> 0, realm |-> 0, num |-> n]

idToString(id) ==
    ToString(id.shard) \o "." \o ToString(id.realm) \o "." \o ToString(id.num)

\* the accounts of the wallets used
AccountIds == {EntityId(n) : n \in {1001, 1002}}

\* the topics the network creates
TopicIds == {EntityId(n) : n \in {1234, 5678}}

\* Status objects of the SDK are their response codes; toString() names them
StatusCodes == {22, 150}

statusToString(code) ==
    IF code = 22 THEN "SUCCESS"
    ELSE IF code = 150 THEN "INVALID_TOPIC_ID"
    ELSE ToString(code)

\* receipts getReceiptWithSigner can return for a topic creation: the new
\* topic's id may be missing
CreateReceipts ==
    [topicId : {Undefined} \cup {Some(t) : t \in TopicIds},
     status  : {Some(22)}]

\* receipts getReceiptWithSigner can return for a message submission: the
\* status may be missing
SubmitReceipts ==
    [topicId : {Undefined},
     status  : {Undefined} \cup {Some(c) : c \in StatusCodes}]

\* Error objects thrown by the wallet-session library
WalletErrors == {[message |-> "Proposal expired"]}

\* the three transaction steps of main.js:149-156 and 214-221
SdkSteps == <<"freezeWithSigner", "executeWithSigner", "getReceiptWithSigner">>

\* Error objects an SDK transaction step rejects with: the signer cannot
\* populate the transaction, the wallet user declines to sign, the network
\* has no receipt
SdkErrors(step) ==
    IF step = "freezeWithSigner" THEN {[message |-> "Signer unavailable"]}
    ELSE IF step = "executeWithSigner" THEN {[message |-> "User rejected"]}
    ELSE {[message |-> "Receipt not found"]}

\* values the user can type into #messageInput
InputValues == {"", "hello"}

\* String.prototype.includes
Contains(s, sub) ==
    \E i \in 1..(Len(s) - Len(sub) + 1) : SubSeq(s, i, i + Len(sub) - 1) = sub

-----------------------------------------------------------------------------
(* DOM helpers *)

\* the element ids of the page (spec section 6, DOM surface)
DomElements ==
    {"accountId", "disconnectButton", "topicIdDisplay", "messageStatus",
     "messageInput", "createTopicButton", "submitMessageButton"}

NoAccountText == "No account connected"

updateAccountIdDisplay(d, value) ==
    IF "accountId" \notin DOMAIN d \/ "disconnectButton" \notin DOMAIN d
    THEN d
    ELSE [d EXCEPT !["accountId"] = value,
                   !["disconnectButton"] =
                       IF value # "" /\ value # NoAccountText
                       THEN "Connected - Click to Disconnect"
                       ELSE "Connect to WalletConnect"]

updateTopicIdDisplay(d, html) ==
    IF "topicIdDisplay" \in DOMAIN d
    THEN [d EXCEPT !["topicIdDisplay"] = html]
    ELSE d

updateMessageStatus(d, html) ==
    IF "messageStatus" \in DOMAIN d
    THEN [d EXCEPT !["messageStatus"] = html]
    ELSE d

-----------------------------------------------------------------------------
(* Initial state: the module body has run, DOMContentLoaded has not fired *)

Init ==
    /\ accountId = ""
    /\ isConnected = FALSE
    /\ topicId = ""
    /\ walletConnectInitPromise = "unset"
    /\ initCalls = 0
    /\ signers = <<>>
    /\ dom = [id \in DomElements |-> ""]
    /\ listeners = {}
    /\ pagePc = "start"
    /\ inv = <<>>
    /\ unhandled = {}

-----------------------------------------------------------------------------
(* Handler invocations *)

\* a handler invocation: its kind, where it is suspended, the locals it
\* captured (signer, topic the transaction was built for, message), the
\* external calls it has made so far and how each one settled, the receipt
\* it obtained, the error its catch block received and the number of
\* writes it made to its status display
NewInv(kind) ==
    [kind |-> kind, pc |-> "entry", signer |-> Undefined, calls |-> <<>>,
     settled |-> <<>>, txTopic |-> "", message |-> "", receipt |-> Undefined,
     err |-> Undefined, writes |-> 0]

\* the promise the invocation awaits fulfils ("ok") or rejects ("err")
Settle(r, outcome) == [r EXCEPT !.settled = Append(@, outcome)]

\* the handler returns: its locals go out of scope
Return(r) ==
    [r EXCEPT !.pc = "done", !.signer = Undefined, !.txTopic = "", !.message = ""]

\* dappConnector.signers[0]
FirstSigner == IF signers = <<>> THEN Undefined ELSE Some(signers[1])

Awaiting(i, pc) == i \in 1..Len(inv) /\ inv[i].pc = pc

CanClick(button) == button \in listeners /\ Len(inv) < MaxInv

-----------------------------------------------------------------------------
(* Wallet session: initialization, sync, connect, disconnect *)

\* initializeWalletConnect without the stored-promise guard of main.js:52
initializeWalletConnectUnguarded(promise, calls) ==
    [promise |-> "pending", calls |-> calls + 1]

\* main.js:51-56: the stored promise and the init() call count after one call
initializeWalletConnect(promise, calls) ==
    IF promise = "unset"
    THEN [promise |-> "pending", calls |-> calls + 1]
    ELSE [promise |-> promise, calls |-> calls]

\* syncWalletconnectState whose else branch (main.js:66-71) leaves the
\* display as it was
syncWalletconnectStateKeepsAccount(sg, d) ==
    LET account == IF sg = <<>> THEN Undefined ELSE Some(idToString(sg[1]))
    IN  IF account # Undefined /\ account[1] # ""
        THEN [accountId |-> account[1], isConnected |-> TRUE,
              dom |-> updateAccountIdDisplay(d, account[1])]
        ELSE [accountId |-> "", isConnected |-> FALSE, dom |-> d]

\* main.js:59-72: the globals and the DOM after a sync against signer list sg
syncWalletconnectState(sg, d) ==
    LET account == IF sg = <<>> THEN Undefined ELSE Some(idToString(sg[1]))
    IN  IF account # Undefined /\ account[1] # ""
        THEN [accountId |-> account[1], isConnected |-> TRUE,
              dom |-> updateAccountIdDisplay(d, account[1])]
        ELSE [accountId |-> "", isConnected |-> FALSE,
              dom |-> updateAccountIdDisplay(d, NoAccountText)]

\* main.js:77-82: openWalletConnectModal once initialization has resolved
ConnectAfterInit(r, connected) ==
    IF ~connected
    THEN [r EXCEPT !.pc = "awaitModal", !.calls = Append(@, "openModal")]
    ELSE [r EXCEPT !.pc = "done"]

\* main.js:83-85 and 96-98: the catch blocks of connect and disconnect
SessionCatch(r, e) == [Settle(r, "err") EXCEPT !.pc = "done", !.err = Some(e)]

\* disconnectWallet without the accountId reset of main.js:93
afterDisconnectAllKeepsAccount(acc, d) ==
    [accountId |-> acc, isConnected |-> FALSE,
     dom |-> updateAccountIdDisplay(d, NoAccountText)]

\* main.js:92-94: the globals and the DOM after disconnectAll() resolved
afterDisconnectAll(acc, d) ==
    [accountId |-> "", isConnected |-> FALSE,
     dom |-> updateAccountIdDisplay(d, NoAccountText)]

\* the catch of main.js:96-98 also running the reset of main.js:92-94
afterDisconnectFailedClears(acc, connected, d) ==
    [accountId |-> "", isConnected |-> FALSE,
     dom |-> updateAccountIdDisplay(d, NoAccountText)]

\* the catch of main.js:96-98 also resetting the account display
afterDisconnectFailedClearsDisplay(acc, connected, d) ==
    [accountId |-> acc, isConnected |-> connected,
     dom |-> updateAccountIdDisplay(d, NoAccountText)]

\* main.js:96-98: the globals and the DOM after disconnectAll() rejected;
\* the catch block only logs
afterDisconnectFailed(acc, connected, d) ==
    [accountId |-> acc, isConnected |-> connected, dom |-> d]

\* the catch of main.js:83-85 also resetting the session state
afterOpenModalFailedResets(acc, connected, d) ==
    [accountId |-> "", isConnected |-> FALSE,
     dom |-> updateAccountIdDisplay(d, NoAccountText)]

\* main.js:83-85: the globals and the DOM after initialization or
\* openModal() rejected; the catch block only logs, no sync runs
afterOpenModalFailed(acc, connected, d) ==
    [accountId |-> acc, isConnected |-> connected, dom |-> d]

\* the library's signer list after a session for account a was approved
AddSigner(sg, a) ==
    IF \E k \in 1..Len(sg) : sg[k] = a THEN sg ELSE Append(sg, a)

RemoveAt(sg, k) == SubSeq(sg, 1, k - 1) \o SubSeq(sg, k + 1, Len(sg))

\* the page-load handler registering its listeners (main.js:260-276) even
\* though initialization rejected
listenersAfterInitRejectedAll(ls, d) ==
    {"disconnectButton", "createTopicButton", "submitMessageButton"} \cap DOMAIN d

\* main.js:250: the await throws out of the page-load handler, so lines
\* 252-276 do not run and the listeners stay as they were
listenersAfterInitRejected(ls, d) == ls

\* main.js:249-250: DOMContentLoaded fires, the handler starts initialization
PageLoad ==
    /\ pagePc = "start"
    /\ LET init == initializeWalletConnect(walletConnectInitPromise, initCalls)
       IN  /\ walletConnectInitPromise' = init.promise
           /\ initCalls' = init.calls
    /\ pagePc' = "awaitInit"
    /\ UNCHANGED <<accountId, isConnected, topicId, signers, dom, listeners,
                   inv, unhandled>>

\* dappConnector.init() resolves, with or without a restored session; the
\* awaiters continue in the order they subscribed: the page-load handler
\* (main.js:252-276), then any connect invocation waiting at main.js:76
InitFulfil(restored) ==
    /\ walletConnectInitPromise = "pending"
    /\ walletConnectInitPromise' = "fulfilled"
    /\ signers' = restored
    /\ LET sync == syncWalletconnectState(restored, dom)
           connected == IF pagePc = "awaitInit" THEN sync.isConnected ELSE isConnected
       IN  /\ IF pagePc = "awaitInit"
              THEN /\ accountId' = sync.accountId
                   /\ isConnected' = sync.isConnected
                   /\ dom' = sync.dom
                   /\ listeners' = {"disconnectButton", "createTopicButton",
                                    "submitMessageButton"} \cap DOMAIN dom
                   /\ pagePc' = "ready"
              ELSE UNCHANGED <<accountId, isConnected, dom, listeners, pagePc>>
           /\ inv' = [i \in 1..Len(inv) |->
                        IF inv[i].pc = "awaitInit"
                        THEN ConnectAfterInit(Settle(inv[i], "ok"), connected)
                        ELSE inv[i]]
    /\ UNCHANGED <<topicId, initCalls, unhandled>>

\* dappConnector.init() rejects: the page-load handler has no catch
\* (main.js:250), a waiting connect invocation catches (main.js:83-85)
InitReject(e) ==
    /\ walletConnectInitPromise = "pending"
    /\ walletConnectInitPromise' = "rejected"
    /\ IF pagePc = "awaitInit"
       THEN /\ pagePc' = "failed"
            /\ unhandled' = unhandled \cup {e.message}
       ELSE UNCHANGED <<pagePc, unhandled>>
    /\ inv' = [i \in 1..Len(inv) |->
                 IF inv[i].pc = "awaitInit" THEN SessionCatch(inv[i], e) ELSE inv[i]]
    /\ listeners' = IF pagePc = "awaitInit"
                    THEN listenersAfterInitRejected(listeners, dom)
                    ELSE listeners
    /\ UNCHANGED <<accountId, isConnected, topicId, initCalls, signers, dom>>

\* main.js:261-267 (else branch) and 74-86: click while not connected
openWalletConnectModal ==
    /\ CanClick("disconnectButton")
    /\ ~isConnected
    /\ LET init == initializeWalletConnect(walletConnectInitPromise, initCalls)
           r == [NewInv("connect") EXCEPT !.pc = "awaitInit", !.calls = <<"init">>]
       IN  /\ walletConnectInitPromise' = init.promise
           /\ initCalls' = init.calls
           /\ inv' = Append(inv, IF init.promise = "fulfilled"
                                 THEN ConnectAfterInit(Settle(r, "ok"), isConnected)
                                 ELSE r)
    /\ UNCHANGED <<accountId, isConnected, topicId, signers, dom, listeners,
                   pagePc, unhandled>>

\* dappConnector.openModal() resolves after the wallet approved a session
\* for account a; main.js:79 syncs
ModalResolve(i, a) ==
    /\ Awaiting(i, "awaitModal")
    /\ signers' = AddSigner(signers, a)
    /\ LET sync == syncWalletconnectState(signers', dom)
       IN  /\ accountId' = sync.accountId
           /\ isConnected' = sync.isConnected
           /\ dom' = sync.dom
    /\ inv' = [inv EXCEPT ![i] = Return(Settle(@, "ok"))]
    /\ UNCHANGED <<topicId, walletConnectInitPromise, initCalls, listeners,
                   pagePc, unhandled>>

\* dappConnector.openModal() rejects (modal closed, proposal expired)
ModalReject(i, e) ==
    /\ Awaiting(i, "awaitModal")
    /\ inv' = [inv EXCEPT ![i] = SessionCatch(@, e)]
    /\ LET after == afterOpenModalFailed(accountId, isConnected, dom)
       IN  /\ accountId' = after.accountId
           /\ isConnected' = after.isConnected
           /\ dom' = after.dom
    /\ UNCHANGED <<topicId, walletConnectInitPromise, initCalls, signers,
                   listeners, pagePc, unhandled>>

\* main.js:261-264 and 88-91: click while connected
disconnectWallet ==
    /\ CanClick("disconnectButton")
    /\ isConnected
    /\ inv' = Append(inv, [NewInv("disconnect") EXCEPT
                             !.pc = "awaitDisconnect",
                             !.calls = <<"disconnectAll">>])
    /\ UNCHANGED <<accountId, isConnected, topicId, walletConnectInitPromise,
                   initCalls, signers, dom, listeners, pagePc, unhandled>>

\* dappConnector.disconnectAll() resolves; main.js:92-95
DisconnectResolve(i) ==
    /\ Awaiting(i, "awaitDisconnect")
    /\ signers' = <<>>
    /\ LET after == afterDisconnectAll(accountId, dom)
       IN  /\ accountId' = after.accountId
           /\ isConnected' = after.isConnected
           /\ dom' = after.dom
    /\ inv' = [inv EXCEPT ![i] = Return(Settle(@, "ok"))]
    /\ UNCHANGED <<topicId, walletConnectInitPromise, initCalls, listeners,
                   pagePc, unhandled>>

\* dappConnector.disconnectAll() rejects; main.js:96-98
DisconnectReject(i, e) ==
    /\ Awaiting(i, "awaitDisconnect")
    /\ inv' = [inv EXCEPT ![i] = SessionCatch(@, e)]
    /\ LET after == afterDisconnectFailed(accountId, isConnected, dom)
       IN  /\ accountId' = after.accountId
           /\ isConnected' = after.isConnected
           /\ dom' = after.dom
    /\ UNCHANGED <<topicId, walletConnectInitPromise, initCalls, signers,
                   listeners, pagePc, unhandled>>

\* the wallet ends a session on its side (session delete / expiry): the
\* library drops that signer; main.js registers no handler for it
LibSessionEnd(k) ==
    /\ walletConnectInitPromise = "fulfilled"
    /\ k \in 1..Len(signers)
    /\ signers' = RemoveAt(signers, k)
    /\ UNCHANGED <<accountId, isConnected, topicId, walletConnectInitPromise,
                   initCalls, dom, listeners, pagePc, inv, unhandled>>

-----------------------------------------------------------------------------
(* Topic creation and message submission *)

NotConnectedText == "Connect a wallet first!"

\* U+2014 (em dash), which a TLA+ string cannot hold, written in ASCII
EmDash == "--"

NoTopicText == "No topic to submit to" \o EmDash \o "create a topic first!"

NoMessageText == "Please enter a message first."

NoTopicIdText == "Topic creation failed (no topicId)"

\* the explorer link built for the wrong network
HashscanLinkMainnet(t) == "https://hashscan.io/mainnet/topic/" \o t

\* main.js:164 and 228
HashscanLink(t) == "https://hashscan.io/testnet/topic/" \o t

\* main.js:167-173
TopicCreatedHtml(t) ==
    "\n        " \o t \o "\n        <br/><br/>\n        <a href=\""
    \o HashscanLink(t)
    \o "\" target=\"_blank\" class=\"hashscan-link\">\n          View on HashScan\n        </a>\n      "

\* main.js:231-237
MessageSubmittedHtml(t) ==
    "\n        Message submitted to topic " \o t
    \o " successfully!\n        <br/><br/>\n        <a href=\""
    \o HashscanLink(t)
    \o "\" target=\"_blank\" class=\"hashscan-link\">\n          View on HashScan\n        </a>\n      "

\* the catch block of main.js:180 without the interpolated message
TopicCreationErrorHtmlNoMessage(e) == "Topic creation error: "

\* main.js:180
TopicCreationErrorHtml(e) == "Topic creation error: " \o e.message

\* main.js:244
MessageSubmitErrorHtml(e) == "Message submit error: " \o e.message

\* main.js:240: the template renders a missing status as "undefined"
MessageFailedHtml(status) ==
    "Message submission failed: "
    \o (IF status = Undefined THEN "undefined" ELSE statusToString(status[1]))

\* the SDK step is called and, without waiting, called again
CallStepTwice(r, pc, step) ==
    [r EXCEPT !.pc = pc, !.calls = Append(Append(@, step), step)]

\* the next SDK step is called on the same invocation
CallStep(r, pc, step) == [r EXCEPT !.pc = pc, !.calls = Append(@, step)]

\* handleTopicCreation without the isConnected guard of main.js:136-140
CreateEntryUnguarded(connected, sg) ==
    CallStep([NewInv("create") EXCEPT !.signer = sg],
             "awaitFreeze", "freezeWithSigner")

\* handleTopicCreation without the return of main.js:139: the prompt is
\* written and the transaction is built all the same
CreateEntryNoReturn(connected, sg) ==
    IF ~connected
    THEN CallStep([NewInv("create") EXCEPT !.signer = sg, !.writes = 1],
                  "awaitFreeze", "freezeWithSigner")
    ELSE CallStep([NewInv("create") EXCEPT !.signer = sg],
                  "awaitFreeze", "freezeWithSigner")

\* main.js:135-149: the invocation record after the synchronous entry part
CreateEntry(connected, sg) ==
    IF ~connected
    THEN [NewInv("create") EXCEPT !.pc = "done", !.writes = 1]
    ELSE CallStep([NewInv("create") EXCEPT !.signer = sg],
                  "awaitFreeze", "freezeWithSigner")

\* main.js:160-162 storing the topic only while none is stored yet
createOnReceiptFirstWins(receipt, tid, d) ==
    IF receipt.topicId # Undefined
    THEN LET t == idToString(receipt.topicId[1])
         IN  [topicId |-> IF tid = "" THEN t ELSE tid,
              dom |-> updateTopicIdDisplay(d, TopicCreatedHtml(t))]
    ELSE [topicId |-> tid, dom |-> updateTopicIdDisplay(d, NoTopicIdText)]

\* main.js:174-177 also resetting the stored topic
createOnReceiptClears(receipt, tid, d) ==
    IF receipt.topicId # Undefined
    THEN LET t == idToString(receipt.topicId[1])
         IN  [topicId |-> t, dom |-> updateTopicIdDisplay(d, TopicCreatedHtml(t))]
    ELSE [topicId |-> "", dom |-> updateTopicIdDisplay(d, NoTopicIdText)]

\* main.js:160-177: stored topic and DOM after the receipt arrived
createOnReceipt(receipt, tid, d) ==
    IF receipt.topicId # Undefined
    THEN LET t == idToString(receipt.topicId[1])
         IN  [topicId |-> t, dom |-> updateTopicIdDisplay(d, TopicCreatedHtml(t))]
    ELSE [topicId |-> tid, dom |-> updateTopicIdDisplay(d, NoTopicIdText)]

\* the preconditions without the topicId check of main.js:191-195
SubmitPreconditionNoTopicCheck(connected, tid, d) ==
    IF ~connected THEN Some(NotConnectedText)
    ELSE IF "messageInput" \notin DOMAIN d \/ d["messageInput"] = ""
         THEN Some(NoMessageText)
    ELSE Undefined

\* the preconditions without the empty-message check of main.js:200-204
SubmitPreconditionNoMessageCheck(connected, tid, d) ==
    IF ~connected THEN Some(NotConnectedText)
    ELSE IF tid = "" THEN Some(NoTopicText)
    ELSE Undefined

\* main.js:186-204: the instructional text of the first failing precondition,
\* or Undefined when the transaction is to be built
SubmitPrecondition(connected, tid, d) ==
    IF ~connected THEN Some(NotConnectedText)
    ELSE IF tid = "" THEN Some(NoTopicText)
    ELSE IF "messageInput" \notin DOMAIN d \/ d["messageInput"] = ""
         THEN Some(NoMessageText)
    ELSE Undefined

\* main.js:185-214: the invocation record after the synchronous entry part
SubmitEntry(connected, tid, sg, d) ==
    IF SubmitPrecondition(connected, tid, d) # Undefined
    THEN [NewInv("submit") EXCEPT !.pc = "done", !.writes = 1]
    ELSE CallStep([NewInv("submit") EXCEPT !.signer = sg, !.txTopic = tid,
                                           !.message = d["messageInput"]],
                  "awaitFreeze", "freezeWithSigner")

\* main.js:225 testing only that a status is present
submitOnReceiptAnyStatus(receipt, tid) ==
    IF receipt.status # Undefined
    THEN MessageSubmittedHtml(tid)
    ELSE MessageFailedHtml(receipt.status)

\* main.js:225-241: the html rendered for a receipt; tid is the global
\* topicId at the time the receipt arrives
submitOnReceipt(receipt, tid) ==
    IF receipt.status # Undefined /\ statusToString(receipt.status[1]) = "SUCCESS"
    THEN MessageSubmittedHtml(tid)
    ELSE MessageFailedHtml(receipt.status)

\* main.js:135-149: click on #createTopicButton
handleTopicCreation ==
    /\ CanClick("createTopicButton")
    /\ inv' = Append(inv, CreateEntry(isConnected, FirstSigner))
    /\ IF ~isConnected
       THEN /\ dom' = updateTopicIdDisplay(dom, NotConnectedText)
       ELSE UNCHANGED dom
    /\ UNCHANGED <<accountId, isConnected, topicId, walletConnectInitPromise,
                   initCalls, signers, listeners, pagePc, unhandled>>

\* the content of #messageInput after the user typed v into it
TypeMessage(d, v) ==
    IF "messageInput" \in DOMAIN d THEN [d EXCEPT !["messageInput"] = v] ELSE d

\* main.js:185-214: click on #submitMessageButton, the user having left
\* v in #messageInput
handleTopicMessageSubmission(v) ==
    /\ CanClick("submitMessageButton")
    /\ LET typed == TypeMessage(dom, v)
           pre == SubmitPrecondition(isConnected, topicId, typed)
       IN  /\ inv' = Append(inv, SubmitEntry(isConnected, topicId, FirstSigner, typed))
           /\ dom' = IF pre # Undefined THEN updateMessageStatus(typed, pre[1]) ELSE typed
    /\ UNCHANGED <<accountId, isConnected, topicId, walletConnectInitPromise,
                   initCalls, signers, listeners, pagePc, unhandled>>

\* freezeWithSigner resolves (it cannot with an undefined signer);
\* main.js:152 and 217 call executeWithSigner
FreezeResolve(i) ==
    /\ Awaiting(i, "awaitFreeze")
    /\ inv[i].signer # Undefined
    /\ inv' = [inv EXCEPT ![i] = CallStep(Settle(@, "ok"), "awaitExecute",
                                          "executeWithSigner")]
    /\ UNCHANGED <<accountId, isConnected, topicId, walletConnectInitPromise,
                   initCalls, signers, dom, listeners, pagePc, unhandled>>

\* executeWithSigner resolves; main.js:156 and 221 call getReceiptWithSigner
ExecuteResolve(i) ==
    /\ Awaiting(i, "awaitExecute")
    /\ inv' = [inv EXCEPT ![i] = CallStep(Settle(@, "ok"), "awaitReceipt",
                                          "getReceiptWithSigner")]
    /\ UNCHANGED <<accountId, isConnected, topicId, walletConnectInitPromise,
                   initCalls, signers, dom, listeners, pagePc, unhandled>>

\* getReceiptWithSigner resolves in a create-topic invocation; main.js:157-177
CreateReceipt(i, receipt) ==
    /\ Awaiting(i, "awaitReceipt")
    /\ inv[i].kind = "create"
    /\ LET after == createOnReceipt(receipt, topicId, dom)
       IN  /\ topicId' = after.topicId
           /\ dom' = after.dom
    /\ inv' = [inv EXCEPT ![i] = Return([Settle(@, "ok") EXCEPT
                                            !.receipt = Some(receipt),
                                            !.writes = @ + 1])]
    /\ UNCHANGED <<accountId, isConnected, walletConnectInitPromise, initCalls,
                   signers, listeners, pagePc, unhandled>>

\* getReceiptWithSigner resolves in a submit-message invocation; main.js:222-241
SubmitReceipt(i, receipt) ==
    /\ Awaiting(i, "awaitReceipt")
    /\ inv[i].kind = "submit"
    /\ dom' = updateMessageStatus(dom, submitOnReceipt(receipt, topicId))
    /\ inv' = [inv EXCEPT ![i] = Return([Settle(@, "ok") EXCEPT
                                            !.receipt = Some(receipt),
                                            !.writes = @ + 1])]
    /\ UNCHANGED <<accountId, isConnected, topicId, walletConnectInitPromise,
                   initCalls, signers, listeners, pagePc, unhandled>>

\* main.js:178-181 and 242-245: the html the catch block renders
TransactionCatchHtml(kind, e) ==
    IF kind = "create" THEN TopicCreationErrorHtml(e) ELSE MessageSubmitErrorHtml(e)

\* any of the three SDK steps rejects; the catch block renders the message
SdkReject(i, e) ==
    /\ i \in 1..Len(inv)
    /\ inv[i].pc \in {"awaitFreeze", "awaitExecute", "awaitReceipt"}
    /\ e \in SdkErrors(inv[i].calls[Len(inv[i].calls)])
    /\ dom' = IF inv[i].kind = "create"
              THEN updateTopicIdDisplay(dom, TransactionCatchHtml("create", e))
              ELSE updateMessageStatus(dom, TransactionCatchHtml("submit", e))
    /\ inv' = [inv EXCEPT ![i] = Return([Settle(@, "err") EXCEPT
                                            !.err = Some(e), !.writes = @ + 1])]
    /\ UNCHANGED <<accountId, isConnected, topicId, walletConnectInitPromise,
                   initCalls, signers, listeners, pagePc, unhandled>>

-----------------------------------------------------------------------------
(* Specification *)

AllSdkErrors == UNION {SdkErrors(SdkSteps[k]) : k \in 1..Len(SdkSteps)}

\* persisted sessions the library can restore during init()
RestorableSessions == {<<>>} \cup {<<a>> : a \in AccountIds}

Next ==
    \/ PageLoad
    \/ \E restored \in RestorableSessions : InitFulfil(restored)
    \/ \E e \in WalletErrors : InitReject(e)
    \/ openWalletConnectModal
    \/ \E i \in 1..MaxInv, a \in AccountIds : ModalResolve(i, a)
    \/ \E i \in 1..MaxInv, e \in WalletErrors : ModalReject(i, e)
    \/ disconnectWallet
    \/ \E i \in 1..MaxInv : DisconnectResolve(i)
    \/ \E i \in 1..MaxInv, e \in WalletErrors : DisconnectReject(i, e)
    \/ \E k \in 1..Len(signers) : LibSessionEnd(k)
    \/ handleTopicCreation
    \/ \E v \in InputValues : handleTopicMessageSubmission(v)
    \/ \E i \in 1..MaxInv : FreezeResolve(i)
    \/ \E i \in 1..MaxInv : ExecuteResolve(i)
    \/ \E i \in 1..MaxInv, receipt \in CreateReceipts : CreateReceipt(i, receipt)
    \/ \E i \in 1..MaxInv, receipt \in SubmitReceipts : SubmitReceipt(i, receipt)
    \/ \E i \in 1..MaxInv, e \in AllSdkErrors : SdkReject(i, e)

Spec == Init /\ [][Next]_vars

\* the SDK call invocation i awaits (main.js:149, 152, 156, 214, 217, 221)
\* resolves or rejects
SettleSdk(i) ==
    \/ FreezeResolve(i)
    \/ ExecuteResolve(i)
    \/ \E receipt \in CreateReceipts : CreateReceipt(i, receipt)
    \/ \E receipt \in SubmitReceipts : SubmitReceipt(i, receipt)
    \/ \E e \in AllSdkErrors : SdkReject(i, e)

\* the behaviours in which every SDK call that is awaited eventually settles
FairSpec == Spec /\ \A i \in 1..MaxInv : WF_vars(SettleSdk(i))

-----------------------------------------------------------------------------
(* Properties *)

Invocations == 1..Len(inv)

\* this step is a click that started a new invocation of the given kind
Started(kind) == Len(inv') = Len(inv) + 1 /\ inv'[Len(inv')].kind = kind

\* the step left every earlier invocation as it was: no external call made
OthersUntouched == \A i \in Invocations : inv'[i] = inv[i]

\* C1: in every reachable state (every handler entry and every await
\* suspension point) isConnected is true iff accountId is a non-empty string.
C1_ConnectedIffAccount == isConnected <=> (accountId # "")

\* a connect succeeded and a later disconnect resolved and cleared the state
C1_Witness ==
    /\ ~isConnected
    /\ accountId = ""
    /\ \E i, j \in Invocations :
         /\ i < j
         /\ inv[i].kind = "connect" /\ inv[i].settled = <<"ok", "ok">>
         /\ inv[j].kind = "disconnect" /\ inv[j].settled = <<"ok">>

\* C2: dappConnector.init() is called at most once per page load; it has
\* been called exactly when the promise is stored, so every later caller of
\* initializeWalletConnect awaits the stored promise.
C2_InitAtMostOnce ==
    /\ initCalls <= 1
    /\ (initCalls = 1) <=> (walletConnectInitPromise # "unset")

\* openWalletConnectModal has called initializeWalletConnect after the
\* page-load handler did, and init() was still called once
C2_Witness ==
    /\ initCalls = 1
    /\ \E i, j \in Invocations :
         i # j /\ inv[i].kind = "connect" /\ inv[j].kind = "connect"

SessionCallInFlight ==
    \E i \in Invocations :
        inv[i].kind \in {"connect", "disconnect"} /\ inv[i].pc # "done"

\* C3: whenever no connect or disconnect call is in flight, isConnected is
\* true iff the wallet-session library has a signer (signers[0] exists).
C3_ConnectedIffSignerPresent ==
    ~SessionCallInFlight => (isConnected <=> (signers # <<>>))

\* C4: once topicId is non-empty it is never empty again.
C4_TopicNeverCleared == [][topicId # "" => topicId' # ""]_vars

\* a topic exists and the last create-topic outcome shown is a failure
C4_Witness ==
    /\ topicId # ""
    /\ dom["topicIdDisplay"] = NoTopicIdText
    /\ \E i \in Invocations :
         /\ inv[i].kind = "create" /\ inv[i].receipt # Undefined
         /\ inv[i].receipt[1].topicId = Undefined

\* C5: in each create-topic or submit-message invocation the SDK calls are
\* a prefix of freeze, execute, receipt (each at most once, in that order);
\* a step is called only when every earlier step has resolved, and once a
\* step has thrown no later step is called.
C5_StrictStepOrder ==
    \A i \in Invocations :
        inv[i].kind \in {"create", "submit"} =>
            /\ Len(inv[i].calls) <= Len(SdkSteps)
            /\ inv[i].calls = SubSeq(SdkSteps, 1, Len(inv[i].calls))
            /\ Len(inv[i].settled) <= Len(inv[i].calls)
            /\ Len(inv[i].calls) <= Len(inv[i].settled) + 1
            /\ \A k \in 1..Len(inv[i].settled) :
                 inv[i].settled[k] = "err" => k = Len(inv[i].calls)

\* one invocation went through all three steps and another one stopped at
\* a step that threw
C5_Witness ==
    \E i, j \in Invocations :
        /\ inv[i].kind \in {"create", "submit"}
        /\ inv[i].calls = SdkSteps /\ inv[i].settled = <<"ok", "ok", "ok">>
        /\ inv[j].kind \in {"create", "submit"}
        /\ inv[j].calls = SubSeq(SdkSteps, 1, 2) /\ inv[j].settled = <<"ok", "err">>

\* invocation i receives a thrown error in this step
Catches(i) == inv[i].err = Undefined /\ inv'[i].err # Undefined

\* C6 as stated: every error thrown in a connect/disconnect, create-topic
\* or submit-message invocation is rendered into the page with its message
\* text and does not escape as an unhandled rejection.
C6_EveryErrorRendered ==
    [][\A i \in Invocations :
         Catches(i) =>
            /\ unhandled' = unhandled
            /\ \E id \in DOMAIN dom' :
                 Contains(dom'[id], inv'[i].err[1].message)]_vars

\* C6 amended: an error thrown in a create-topic or submit-message
\* invocation is rendered, with its message text, into that flow's status
\* display; an error thrown in a connect or disconnect invocation is caught
\* and leaves the page unchanged; in none of them does it escape the handler.
C6_TransactionErrorsRendered ==
    [][\A i \in Invocations :
         Catches(i) =>
            /\ unhandled' = unhandled
            /\ inv'[i].pc = "done"
            /\ CASE inv[i].kind = "create" ->
                      Contains(dom'["topicIdDisplay"], inv'[i].err[1].message)
                 [] inv[i].kind = "submit" ->
                      Contains(dom'["messageStatus"], inv'[i].err[1].message)
                 [] OTHER -> dom' = dom]_vars

\* a create-topic step threw and the topic display shows the message, and
\* a connect or disconnect call threw as well
C6_Witness ==
    \E i, j \in Invocations :
        /\ inv[i].kind = "create" /\ inv[i].err # Undefined
        /\ Contains(dom["topicIdDisplay"], inv[i].err[1].message)
        /\ inv[j].kind \in {"connect", "disconnect"} /\ inv[j].err # Undefined

\* C7: create-topic invoked while isConnected is false calls no SDK
\* operation, writes exactly "Connect a wallet first!" to the topic display
\* and leaves topicId, accountId and isConnected unchanged.
C7_CreateNeedsConnection ==
    [][(Started("create") /\ ~isConnected) =>
          /\ inv'[Len(inv')].calls = <<>>
          /\ inv'[Len(inv')].pc = "done"
          /\ OthersUntouched
          /\ dom' = [dom EXCEPT !["topicIdDisplay"] = "Connect a wallet first!"]
          /\ UNCHANGED <<topicId, accountId, isConnected>>]_vars

\* create-topic was clicked while disconnected and returned at once
C7_Witness ==
    /\ ~isConnected
    /\ dom["topicIdDisplay"] = "Connect a wallet first!"
    /\ \E i \in Invocations :
         inv[i].kind = "create" /\ inv[i].pc = "done" /\ inv[i].calls = <<>>

\* C8 as stated: submit-message invoked in any state with an empty topicId
\* renders the no-topic prompt and makes no SDK call.
C8_NoTopicPromptAlways ==
    [][(Started("submit") /\ topicId = "") =>
          /\ dom'["messageStatus"] = NoTopicText
          /\ inv'[Len(inv')].calls = <<>>
          /\ OthersUntouched]_vars

\* C8 amended: submit-message invoked while connected with an empty topicId
\* renders the no-topic prompt and makes no SDK call; while not connected it
\* renders "Connect a wallet first!" instead, again without an SDK call.
C8_NoTopicPromptWhenConnected ==
    [][(Started("submit") /\ topicId = "") =>
          /\ dom'["messageStatus"] =
                IF isConnected THEN NoTopicText ELSE "Connect a wallet first!"
          /\ inv'[Len(inv')].calls = <<>>
          /\ inv'[Len(inv')].pc = "done"
          /\ OthersUntouched]_vars

\* submit-message was clicked while connected and before any topic existed
C8_Witness ==
    /\ isConnected
    /\ topicId = ""
    /\ dom["messageStatus"] = NoTopicText
    /\ \E i \in Invocations :
         inv[i].kind = "submit" /\ inv[i].pc = "done" /\ inv[i].calls = <<>>

\* C9 as stated: submit-message invoked in any state with an empty message
\* input renders "Please enter a message first." and makes no SDK call.
C9_NoMessagePromptAlways ==
    [][(Started("submit") /\ dom'["messageInput"] = "") =>
          /\ dom'["messageStatus"] = "Please enter a message first."
          /\ inv'[Len(inv')].calls = <<>>
          /\ OthersUntouched]_vars

\* C9 amended: submit-message invoked with an empty message input while
\* connected and with a topic renders "Please enter a message first."; when
\* not connected or without a topic the earlier prompt is rendered instead;
\* in every case no SDK call is made.
C9_NoMessagePromptWhenReady ==
    [][(Started("submit") /\ dom'["messageInput"] = "") =>
          /\ dom'["messageStatus"] =
                IF ~isConnected THEN "Connect a wallet first!"
                ELSE IF topicId = "" THEN NoTopicText
                ELSE "Please enter a message first."
          /\ inv'[Len(inv')].calls = <<>>
          /\ inv'[Len(inv')].pc = "done"
          /\ OthersUntouched]_vars

\* submit-message was clicked with an empty input, connected, topic present
C9_Witness ==
    /\ isConnected
    /\ topicId # ""
    /\ dom["messageInput"] = ""
    /\ dom["messageStatus"] = "Please enter a message first."
    /\ inv[Len(inv)].kind = "submit" /\ inv[Len(inv)].calls = <<>>

\* invocation i obtains its receipt in this step
GetsReceipt(i) == inv[i].receipt = Undefined /\ inv'[i].receipt # Undefined

\* C10: a create-topic receipt with topic identifier t stores t in topicId
\* and renders t and https://hashscan.io/testnet/topic/t; a receipt without
\* one renders a failure message, throws nothing and keeps topicId.
C10_CreateReceiptOutcome ==
    [][\A i \in Invocations :
         (inv[i].kind = "create" /\ GetsReceipt(i)) =>
            LET r == inv'[i].receipt[1]
            IN  IF r.topicId # Undefined
                THEN LET t == idToString(r.topicId[1])
                     IN  /\ topicId' = t
                         /\ Contains(dom'["topicIdDisplay"], t)
                         /\ Contains(dom'["topicIdDisplay"],
                                     "https://hashscan.io/testnet/topic/" \o t)
                ELSE /\ topicId' = topicId
                     /\ dom'["topicIdDisplay"] = "Topic creation failed (no topicId)"
                     /\ inv'[i].err = Undefined
                     /\ unhandled' = unhandled]_vars

\* one create-topic stored 0.0.1234 and a later one, whose receipt had no
\* topic identifier, left it in place
C10_Witness ==
    /\ topicId = "0.0.1234"
    /\ dom["topicIdDisplay"] = "Topic creation failed (no topicId)"
    /\ \E i, j \in Invocations :
         /\ inv[i].kind = "create" /\ inv[i].receipt # Undefined
         /\ inv[i].receipt[1].topicId = Some(EntityId(1234))
         /\ inv[j].kind = "create" /\ inv[j].receipt # Undefined
         /\ inv[j].receipt[1].topicId = Undefined

\* C11: a submit-message receipt renders the success message with the
\* explorer link iff its status string is exactly "SUCCESS"; any other
\* status, a missing one included, renders the failure message with that
\* status value in it.
C11_SuccessIffStatusSuccess ==
    [][\A i \in Invocations :
         (inv[i].kind = "submit" /\ GetsReceipt(i)) =>
            LET status == inv'[i].receipt[1].status
                name == IF status = Undefined THEN "undefined"
                        ELSE statusToString(status[1])
                shown == dom'["messageStatus"]
                success == /\ Contains(shown, "successfully!")
                           /\ Contains(shown, "https://hashscan.io/testnet/topic/")
            IN  /\ success <=> (name = "SUCCESS")
                /\ name # "SUCCESS" =>
                     shown = "Message submission failed: " \o name]_vars

\* one submit-message got a SUCCESS receipt, and a later one got
\* INVALID_TOPIC_ID, which the status area shows
C11_Witness ==
    /\ dom["messageStatus"] = "Message submission failed: INVALID_TOPIC_ID"
    /\ \E i, j \in Invocations :
         /\ inv[i].kind = "submit" /\ inv[i].receipt # Undefined
         /\ inv[i].receipt[1].status = Some(22)
         /\ inv[j].kind = "submit" /\ inv[j].receipt # Undefined
         /\ inv[j].receipt[1].status = Some(150)

\* C12: when disconnectAll() throws, the error is caught and the handler
\* leaves isConnected, accountId and the account display as they were.
C12_FailedDisconnectKeepsState ==
    [][\A i \in Invocations :
         (inv[i].kind = "disconnect" /\ Catches(i)) =>
            /\ inv'[i].pc = "done"
            /\ unhandled' = unhandled
            /\ UNCHANGED <<isConnected, accountId>>
            /\ dom'["accountId"] = dom["accountId"]
            /\ dom'["disconnectButton"] = dom["disconnectButton"]]_vars

\* a disconnect threw and the page is still connected
C12_Witness ==
    /\ isConnected
    /\ accountId # ""
    /\ dom["accountId"] = accountId
    /\ \E i \in Invocations :
         /\ inv[i].kind = "disconnect" /\ inv[i].err # Undefined
         /\ inv[i].calls = <<"disconnectAll">>

\* C13 as stated: a disconnect whose disconnectAll() throws still clears
\* the local state: isConnected false, accountId empty, display disconnected.
C13_FailedDisconnectClears ==
    [][\A i \in Invocations :
         (inv[i].kind = "disconnect" /\ Catches(i)) =>
            /\ ~isConnected'
            /\ accountId' = ""
            /\ dom'["accountId"] = "No account connected"]_vars

\* C13 amended: a disconnect whose disconnectAll() throws while the page is
\* connected does not clear the local state: afterwards isConnected is
\* true, accountId is non-empty, the display still claims connected and the
\* library's signers are the ones it had.
C13_FailedDisconnectStaysConnected ==
    [][\A i \in Invocations :
         (inv[i].kind = "disconnect" /\ Catches(i) /\ isConnected) =>
            /\ isConnected'
            /\ accountId' # ""
            /\ dom'["accountId"] = accountId'
            /\ dom'["disconnectButton"] = "Connected - Click to Disconnect"
            /\ signers' = signers]_vars

\* a disconnect threw, the library still holds the session and the page
\* shows the connected account
C13_Witness ==
    /\ isConnected
    /\ signers # <<>>
    /\ dom["disconnectButton"] = "Connected - Click to Disconnect"
    /\ \E i \in Invocations :
         inv[i].kind = "disconnect" /\ inv[i].settled = <<"err">>

\* invocation i, a create-topic, obtains a receipt with a topic identifier
CreatesTopic(i) ==
    /\ inv[i].kind = "create"
    /\ GetsReceipt(i)
    /\ inv'[i].receipt[1].topicId # Undefined

\* C14: with create-topic invocations in flight concurrently, each receipt
\* with a topic identifier overwrites topicId whatever it held, so the last
\* such receipt wins; a step that is not such a receipt (a throw, a receipt
\* without topic identifier, anything else) leaves topicId as it was.
C14_LastSuccessfulReceiptWins ==
    [][/\ \A i \in Invocations :
            CreatesTopic(i) => topicId' = idToString(inv'[i].receipt[1].topicId[1])
       /\ (~ \E i \in Invocations : CreatesTopic(i)) => topicId' = topicId]_vars

\* two create-topic invocations overlapped: the second started while the
\* first was in flight and finished before it; the first one's receipt
\* came last and its topic is the stored one
C14_Witness ==
    \E i, j \in Invocations :
        /\ Len(inv) = 2
        /\ i < j
        /\ inv[i].kind = "create" /\ inv[i].receipt # Undefined
        /\ inv[j].kind = "create" /\ inv[j].receipt # Undefined
        /\ inv[i].receipt[1].topicId # Undefined
        /\ inv[j].receipt[1].topicId # Undefined
        /\ inv[i].receipt[1].topicId # inv[j].receipt[1].topicId
        /\ topicId = idToString(inv[i].receipt[1].topicId[1])
        /\ Contains(dom["topicIdDisplay"], topicId)

\* invocation i calls dappConnector.openModal() in this step
OpensModal(i) ==
    /\ i \in 1..Len(inv')
    /\ inv'[i].kind = "connect"
    /\ inv'[i].pc = "awaitModal"
    /\ (i \in Invocations => inv[i].pc # "awaitModal")

\* invocation i, a connect, returns in this step without having opened the
\* modal and without an error: the "Already connected." branch
ConnectNoOp(i) ==
    /\ i \in 1..Len(inv')
    /\ inv'[i].kind = "connect"
    /\ inv'[i].pc = "done" /\ inv'[i].err = Undefined
    /\ inv'[i].calls = <<"init">>

\* C15: connect opens the wallet modal only with isConnected false once
\* initialization has completed; already connected it changes no state and
\* no display; when initialization or the modal call throws, the error is
\* caught and accountId, isConnected and the account display are unchanged.
C15_ConnectOutcomes ==
    [][\A i \in 1..Len(inv') :
         /\ OpensModal(i) =>
              ~isConnected' /\ walletConnectInitPromise' = "fulfilled"
         /\ ConnectNoOp(i) =>
              UNCHANGED <<accountId, isConnected, topicId, dom, signers>>
         /\ (i \in Invocations /\ inv[i].kind = "connect" /\ Catches(i)) =>
              /\ inv'[i].pc = "done"
              /\ unhandled' = unhandled
              /\ UNCHANGED <<accountId, isConnected, dom>>]_vars

\* two connects were started; one was approved and connected the page, the
\* other one's modal call threw afterwards and left the page connected
C15_Witness ==
    /\ isConnected
    /\ dom["accountId"] = accountId
    /\ \E i, j \in Invocations :
         /\ inv[i].kind = "connect" /\ inv[i].settled = <<"ok", "ok">>
         /\ inv[j].kind = "connect" /\ inv[j].calls = <<"init", "openModal">>
         /\ inv[j].err # Undefined

\* syncWalletconnectState runs in this step: at the end of the page-load
\* handler's initialization, or after openModal() resolved
Syncs ==
    \/ pagePc = "awaitInit" /\ pagePc' = "ready"
    \/ \E i \in Invocations :
         /\ inv[i].kind = "connect" /\ inv[i].pc = "awaitModal"
         /\ inv'[i].pc = "done" /\ inv'[i].err = Undefined

\* C16: after every sync, with a first signer of account a: isConnected is
\* true, accountId is a and the account display shows a; without a signer:
\* isConnected is false, accountId is empty and the display shows
\* "No account connected".
C16_SyncMirrorsFirstSigner ==
    [][Syncs =>
         IF signers' # <<>>
         THEN LET a == idToString(signers'[1])
              IN  /\ isConnected'
                  /\ accountId' = a
                  /\ dom'["accountId"] = a
         ELSE /\ ~isConnected'
              /\ accountId' = ""
              /\ dom'["accountId"] = "No account connected"]_vars

\* the page loaded without a session, then a connect was approved for
\* account 0.0.1002 and the sync after it shows that account
C16_Witness ==
    /\ pagePc = "ready"
    /\ signers = <<EntityId(1002)>>
    /\ isConnected
    /\ accountId = "0.0.1002"
    /\ dom["accountId"] = "0.0.1002"
    /\ Len(inv) = 1
    /\ inv[1].kind = "connect" /\ inv[1].settled = <<"ok", "ok">>

\* C17: once the page-load init() has rejected, the handler has stopped
\* with an unhandled rejection: no sync was made, no click listener is
\* registered, no handler invocation exists and accountId, isConnected and
\* topicId have their initial values, and this stays so.
C17_FailedInitStopsThePage ==
    /\ [](pagePc = "failed" =>
            /\ walletConnectInitPromise = "rejected"
            /\ unhandled # {}
            /\ listeners = {}
            /\ inv = <<>>
            /\ accountId = "" /\ ~isConnected /\ topicId = ""
            /\ \A id \in DOMAIN dom : dom[id] = "")
    /\ [][pagePc = "failed" => pagePc' = "failed"]_vars

\* init() rejected during page load
C17_Witness ==
    /\ pagePc = "failed"
    /\ initCalls = 1
    /\ unhandled = {"Proposal expired"}

\* invocation i is a create-topic or submit-message invocation
IsTransaction(i) == i \in Invocations /\ inv[i].kind \in {"create", "submit"}

Terminated(i) == i \in Invocations /\ inv[i].pc = "done"

\* invocation i has started and not returned
Suspended(i) == IsTransaction(i) /\ ~Terminated(i)

\* C18: when every awaited SDK call settles, every create-topic and
\* submit-message invocation eventually terminates (an invocation never
\* ends, so it terminates iff it is not suspended for ever); it has written exactly
\* one outcome when it has terminated and nothing before, and while it is
\* suspended it changes only when the call it awaits settles.
C18_TerminatesWithOneOutcome ==
    /\ \A i \in 1..MaxInv : []<>(~Suspended(i))
    /\ [](\A i \in Invocations :
            IsTransaction(i) =>
                inv[i].writes = IF inv[i].pc = "done" THEN 1 ELSE 0)
    /\ [][\A i \in Invocations :
            (IsTransaction(i) /\ inv[i].pc # "done" /\ inv'[i] # inv[i]) =>
                Len(inv'[i].settled) = Len(inv[i].settled) + 1]_vars

\* a create-topic invocation terminated after three settled calls and a
\* submit-message invocation terminated on a prompt
C18_Witness ==
    \E i, j \in Invocations :
        /\ inv[i].kind = "create" /\ inv[i].pc = "done"
        /\ Len(inv[i].settled) = 3 /\ inv[i].writes = 1
        /\ inv[j].kind = "submit" /\ inv[j].pc = "done"
        /\ inv[j].calls = <<>> /\ inv[j].writes = 1

\* C19: the topic named in a submit-message success message and in its
\* explorer link is the topic the transaction was built for, also when a
\* create-topic invocation stored another topicId while the submit-message
\* invocation was suspended.
C19_SuccessNamesSubmittedTopic ==
    [][\A i \in Invocations :
          (/\ inv[i].kind = "submit"
           /\ GetsReceipt(i)
           /\ inv'[i].receipt[1].status # Undefined
           /\ statusToString(inv'[i].receipt[1].status[1]) = "SUCCESS")
          => dom'["messageStatus"] = MessageSubmittedHtml(inv[i].txTopic)]_vars

\* invocation i calls an SDK transaction step in this step
CallsSdkStep(i) ==
    /\ inv'[i].kind \in {"create", "submit"}
    /\ Len(inv'[i].calls) > (IF i \in Invocations THEN Len(inv[i].calls) ELSE 0)

\* C20: an SDK transaction step is called, and topicId is assigned, only in
\* a state where isConnected is true, also when a disconnect completed while
\* the invocation was suspended.
C20_SdkStepsOnlyWhileConnected ==
    [][/\ \A i \in 1..Len(inv') : CallsSdkStep(i) => isConnected
       /\ \A i \in Invocations : CreatesTopic(i) => isConnected]_vars

====
